---------------------------- MODULE Spec2Model ----------------------------
(***************************************************************************)
(* A model of tonic's musical-time scheduler.                              *)
(*                                                                         *)
(*   src/src/clock.rs          Clock: beat/bar indices <-> instants        *)
(*   src/src/scheduler.rs      Scheduler: fan-out of delayed sends         *)
(*   src/src/backends/dummy.rs DummyBackend consumer thread                *)
(*   src/src/backends/midi.rs  MidiBackend consumer thread, to_midi        *)
(*   src/src/main.rs           Timeline: ticks, beats, bars, event queue   *)
(*                                                                         *)
(* Instants and Durations are integers counting milliseconds.  An Instant  *)
(* may be negative in the model: the anchors of a Clock are rewritten by   *)
(* subtraction and the model puts the construction of the Clock at 0.      *)
(***************************************************************************)
EXTENDS Integers, Sequences, FiniteSets, TLC

VARIABLES
    now,          \* the monotonic time source, Instant::now()
    saturating,   \* the build: TRUE when Instant - Instant saturates at zero,
                  \* FALSE when it panics on a later right-hand side
    clock,        \* the Clock: [start, bar_start, bpm, bpb]
    last,         \* the last Clock operation: its name, argument, instant,
                  \* the Clock before it and how it ended
    backends,     \* Scheduler.backends: the kinds of the registered backends
    producers,    \* Scheduler.producers: a channel (its Sender) per entry
    chans,        \* the channels created so far, each with its consumer thread
    jobs,         \* the jobs the worker pool holds, not yet run
    pc,           \* the thread that owns the Scheduler: idle or inside a call
    calls,        \* the schedule_at calls made so far
    starts,       \* how many times start_backends() has been called
    delivered,    \* the sends that put an event into a channel
    failed,       \* the sends that found the receiver gone
    device,       \* the messages written to the MIDI output, in order
    midiIn,       \* the event value a MIDI consumer is handed (encoding runs)
    midiOut,      \* what the consumer did with midiIn
    timeline,     \* the Timeline of main.rs
    tlog          \* the last Timeline operation: its name, the Timeline it
                  \* found, what it sent, how it ended; and the counts of
                  \* process() invocations and of schedule calls so far

clockVars == <<clock, last>>
schedVars == <<backends, producers, chans, jobs, pc, calls, starts,
               delivered, failed, device>>
encVars   == <<midiIn, midiOut>>
tlVars    == <<timeline, tlog>>
vars      == <<now, saturating, clock, last, backends, producers, chans, jobs,
               pc, calls, starts, delivered, failed, device, midiIn, midiOut,
               timeline, tlog>>

(***************************************************************************)
(* Bounds of the model.                                                    *)
(***************************************************************************)
MaxClockSteps == 10     \* Advance steps of the time source in a Clock run
MaxRetunes    == 3      \* set_bpm and set_bpb calls in a Clock run
MaxNow        == 2      \* the last instant of the time source in a Scheduler run
MaxBackends   == 2      \* backends handed to Scheduler::new
MaxCalls      == 2      \* schedule_at calls in a run
MaxChans      == 2      \* channels created by start_backends in a run
MaxLen        == 3      \* characters of an event value in an encoding run
MaxIndex      == 3      \* the low word of a beat or bar index given to beat_at, bar_at
MaxTicks      == 481    \* tick() calls in a Timeline run with scheduled events
MaxBarTicks   == 7681   \* tick() calls in a Timeline run with an empty queue
MaxLag        == 1      \* tick durations the time source is ahead of the ticks
MaxSched      == 2      \* schedule calls of the Timeline's owner in a run
MaxSchedTick  == 1      \* the last current_tick at which the owner schedules

(***************************************************************************)
(* Program constants.                                                      *)
(***************************************************************************)
MinuteMs    == 60000    \* clock.rs: 60000 / bpm
DefaultBpb  == 4        \* clock.rs: bpb: 4
NOTE_ON_MSG == 144      \* midi.rs: 0x90
VELOCITY    == 100      \* midi.rs: 0x64
U8Max       == 255      \* the largest u8, the type value.parse::<u8>() asks for
TPB         == 480      \* main.rs: ticks per beat
BPB         == 16       \* main.rs: beats per bar

Max(a, b) == IF a >= b THEN a ELSE b

(***************************************************************************)
(* std::time: Instant - Instant.  The result is a Duration, which cannot   *)
(* be negative: with a later right-hand side the subtraction saturates at  *)
(* zero or panics, depending on the toolchain the crate is built with.     *)
(***************************************************************************)
InstantSub(a, b) == IF a >= b THEN a - b ELSE 0

InstantSubPanics(a, b) == ~saturating /\ a < b

(***************************************************************************)
(* A u64 is a pair of 32-bit words, standing for hi * 2^32 + lo: the       *)
(* indices of the model have a small lo and hi = 0 or 1.  "x as u32" keeps *)
(* the low word.                                                           *)
(***************************************************************************)
U64(h, l) == [hi |-> h, lo |-> l]

\* A u64 below 2^32.
Small(n) == U64(0, n)

as_u32(x) == x.lo

(***************************************************************************)
(* clock.rs                                                                *)
(***************************************************************************)

\* beat_ms(beat, bpm): Duration::from_millis(beat * (60000 / bpm)).
\* The u64 division panics for bpm = 0: see BeatMsPanics.
beat_ms(n, bpm) == n * (MinuteMs \div bpm)

BeatMsPanics(bpm) == bpm = 0

tick(c) == beat_ms(1, c.bpm)

tock(c) == beat_ms(c.bpb, c.bpm)

\* Clock::new(bpm) at instant t.
NewClock(bpm, t) == [start |-> t, bar_start |-> t, bpm |-> bpm, bpb |-> DefaultBpb]

\* delta.div_duration_f64(d) followed by "(x + 1.0) as u64": the integer part
\* of the quotient, plus one.  The instants and durations of the model are
\* multiples of a quarter second, for which the f64 quotient is exact.
\* Only for d > 0; bar and BarIsInf cover a zero divisor.
IndexOf(delta, d) == (delta \div d) + 1

\* Clock::beat() read at instant t.
beat(c, t) == IndexOf(InstantSub(t, c.start), tick(c))

BeatPanics(c, t) == BeatMsPanics(c.bpm) \/ InstantSubPanics(t, c.start)

\* Clock::beat_at(beat): self.start + beat as u32 * self.tick().
beat_at(c, b) == c.start + as_u32(b) * tick(c)

\* Clock::bar() read at instant t.  With tock = 0 (bpb = 0) the f64 quotient
\* is NaN for delta = 0, and (NaN + 1.0) as u64 is 0; it is +inf for
\* delta > 0, and (inf + 1.0) as u64 is u64::MAX: see BarIsInf.
bar(c, t) ==
    IF tock(c) = 0 THEN 0
    ELSE IndexOf(InstantSub(t, c.bar_start), tock(c))

BarPanics(c, t) == BeatMsPanics(c.bpm) \/ InstantSubPanics(t, c.bar_start)

BarIsInf(c, t) == tock(c) = 0 /\ InstantSub(t, c.bar_start) > 0

\* Clock::bar_at(bar): self.bar_start + bar as u32 * self.tock().
bar_at(c, n) == c.bar_start + as_u32(n) * tock(c)

\* A quotient of Durations, a / b, kept exact: the f64 of the code is exact
\* on the quotients of the model (see IndexOf).
Ratio(a, b) == [num |-> a, den |-> b]

\* x - x.trunc() for x = delta / d.
FractOf(delta, d) == Ratio(delta % d, d)

\* Clock::beat_phase() read at instant t.
beat_phase(c, t) == FractOf(InstantSub(t, c.start), tick(c))

\* Clock::bar_phase() read at instant t: its delta is taken from self.start.
bar_phase(c, t) == FractOf(InstantSub(t, c.start), tock(c))

\* Both read Instant::now() - self.start and divide by a Duration that
\* beat_ms computes.
PhasePanics(c, t) == BeatMsPanics(c.bpm) \/ InstantSubPanics(t, c.start)


\* Clock::set_bpm(new_bpm) called at instant t: the Clock it leaves.  With
\* tock = 0 both products of the bar anchor are by a zero Duration, so the
\* u64::MAX that bar() then returns (BarIsInf) leaves bar_start as it is, as
\* the 0 of bar() does here.
set_bpm(c, t, new_bpm) ==
    LET current_beat  == Small(beat(c, t))
        current_bar   == Small(bar(c, t))
        new_tick      == beat_ms(1, new_bpm)
        new_tock      == new_tick * as_u32(Small(c.bpb))
        new_start     == beat_at(c, current_beat) - new_tick * as_u32(current_beat)
        new_bar_start == bar_at(c, current_bar) - new_tock * as_u32(current_bar)
    IN  [c EXCEPT !.start = new_start, !.bar_start = new_bar_start, !.bpm = new_bpm]

\* set_bpm panics before it assigns anything: in beat(), in bar() or in
\* beat_ms(1, new_bpm).
SetBpmPanics(c, t, new_bpm) ==
    BeatPanics(c, t) \/ BarPanics(c, t) \/ BeatMsPanics(new_bpm)

\* set_bpb re-anchoring the beats as well, as set_bpm does.
set_bpb_moves_start(c, t, new_bpb) ==
    LET current_bar   == Small(bar(c, t))
        new_tock      == beat_ms(new_bpb, c.bpm)
        new_bar_start == bar_at(c, current_bar) - new_tock * as_u32(current_bar)
    IN  [c EXCEPT !.start = new_bar_start, !.bar_start = new_bar_start, !.bpb = new_bpb]

\* Clock::set_bpb(new_bpb) called at instant t: the Clock it leaves.
set_bpb(c, t, new_bpb) ==
    LET current_bar   == Small(bar(c, t))
        new_tock      == beat_ms(new_bpb, c.bpm)
        new_bar_start == bar_at(c, current_bar) - new_tock * as_u32(current_bar)
    IN  [c EXCEPT !.bar_start = new_bar_start, !.bpb = new_bpb]

\* set_bpb panics in bar(); and where bar() returns u64::MAX (BarIsInf) and
\* new_tock > 0, new_tock * (u64::MAX as u32) is a Duration of decades: the
\* subtraction from the Instant panics where an Instant cannot precede the
\* platform's epoch, and elsewhere leaves an anchor outside the instants of
\* the model.  The model takes the panic.
SetBpbPanics(c, t, new_bpb) ==
    \/ BarPanics(c, t)
    \/ BarIsInf(c, t) /\ beat_ms(new_bpb, c.bpm) > 0

(***************************************************************************)
(* The Clock's inputs.  The tempos divide 60000 and give ticks that are    *)
(* multiples of ClockStep, the step of the time source in a Clock run.     *)
(***************************************************************************)
BpmArgs == {60, 120}

BpbArgs == {2, 4}

ClockStep == beat_ms(1, 120) \div 2

\* The record of a Clock operation: n counts the retunes so far.
ClockOp(op, arg, pre, result, n) ==
    [op |-> op, arg |-> arg, at |-> now, pre |-> pre, result |-> result, n |-> n]

\* A panic unwinds the thread that owns the Clock: nothing is called after it.
ClockAlive == last.result = "ok"

\* The time source moves on.
Advance ==
    /\ now < MaxClockSteps * ClockStep
    /\ now' = now + ClockStep
    /\ UNCHANGED <<saturating, clockVars, schedVars, encVars, tlVars>>

SetBpm(new_bpm) ==
    /\ ClockAlive
    /\ last.n < MaxRetunes
    /\ LET p == SetBpmPanics(clock, now, new_bpm)
       IN  /\ clock' = IF p THEN clock ELSE set_bpm(clock, now, new_bpm)
           /\ last' = ClockOp("set_bpm", new_bpm, clock, IF p THEN "panic" ELSE "ok",
                               last.n + 1)
    /\ UNCHANGED <<now, saturating, schedVars, encVars, tlVars>>

SetBpb(new_bpb) ==
    /\ ClockAlive
    /\ last.n < MaxRetunes
    /\ LET p == SetBpbPanics(clock, now, new_bpb)
       IN  /\ clock' = IF p THEN clock ELSE set_bpb(clock, now, new_bpb)
           /\ last' = ClockOp("set_bpb", new_bpb, clock, IF p THEN "panic" ELSE "ok",
                               last.n + 1)
    /\ UNCHANGED <<now, saturating, schedVars, encVars, tlVars>>


(***************************************************************************)
(* event.rs, backends/midi.rs                                              *)
(*                                                                         *)
(* An event value, a String, is a sequence of one-character strings.       *)
(***************************************************************************)
Event(v, b) == [value |-> v, beat |-> b]

\* #[derive(Clone)] on Event: a copy, field by field.
clone(e) == [value |-> e.value, beat |-> e.beat]

DigitVal == ("0" :> 0) @@ ("1" :> 1) @@ ("2" :> 2) @@ ("3" :> 3) @@ ("4" :> 4) @@
            ("5" :> 5) @@ ("6" :> 6) @@ ("7" :> 7) @@ ("8" :> 8) @@ ("9" :> 9)

ParseErr == [ok |-> FALSE, val |-> 0]

\* The digit loop of u8::from_str: an InvalidDigit on anything but 0-9, a
\* PosOverflow as soon as the number passes u8::MAX.
RECURSIVE ParseDigits(_, _)
ParseDigits(s, acc) ==
    IF s = <<>> THEN [ok |-> TRUE, val |-> acc]
    ELSE IF Head(s) \notin DOMAIN DigitVal THEN ParseErr
    ELSE LET v == acc * 10 + DigitVal[Head(s)]
         IN  IF v > U8Max THEN ParseErr ELSE ParseDigits(Tail(s), v)

\* self.value.parse::<u8>(): the empty string, a lone sign and a "-" are
\* errors; one leading "+" is skipped; nothing is trimmed.
ParseU8(s) ==
    IF s = <<>> THEN ParseErr
    ELSE IF Head(s) \in {"+", "-"} /\ Tail(s) = <<>> THEN ParseErr
    ELSE IF Head(s) = "+" THEN ParseDigits(Tail(s), 0)
    ELSE ParseDigits(s, 0)

\* MidiEvent::to_midi: parse().unwrap() panics on an Err.
ToMidiPanics(e) == ~ParseU8(e.value).ok

to_midi(e) == <<NOTE_ON_MSG, ParseU8(e.value).val, VELOCITY>>

\* The Ok(event) arm of MidiBackend::run's loop on one event: the message it
\* writes to the output, or the panic that ends the thread.
MidiArm(e) ==
    IF ToMidiPanics(e) THEN [panic |-> TRUE, wrote |-> <<>>]
    ELSE [panic |-> FALSE, wrote |-> <<to_midi(e)>>]


(***************************************************************************)
(* scheduler.rs, backends/dummy.rs, backends/midi.rs                       *)
(***************************************************************************)
Kinds == {"dummy", "midi"}

\* The values and target beats of the events scheduled in a Scheduler run.
Events == {Event(<<"6", "0">>, 1), Event(<<"a", "b", "c">>, 2)}

RECURSIVE ListsUpTo(_, _)
ListsUpTo(S, n) ==
    IF n = 0 THEN {<<>>}
    ELSE LET shorter == ListsUpTo(S, n - 1)
         IN  shorter \cup {Append(l, x) : l \in {m \in shorter : Len(m) = n - 1}, x \in S}

\* let (sender, receiver) = channel(); backend.run(receiver): the channel
\* of backend i, empty, its receiver owned by the thread run() spawns.
\* rx is "open" while that thread is in its loop; sawErr records that a
\* recv() of the thread has returned Err.
NewChannel(i) ==
    [backend |-> i, kind |-> backends[i], queue |-> <<>>, rx |-> "open", sawErr |-> FALSE]

\* Scheduler::start_backends(): a channel per backend, in registration order;
\* its sender is pushed onto producers, its receiver goes to backend.run.
StartBackends ==
    /\ pc = "idle"
    /\ Len(backends) > 0 \/ starts = 0
    /\ Len(chans) + Len(backends) <= MaxChans
    /\ LET n == Len(backends)
           base == Len(chans)
       IN  /\ chans' = chans \o [i \in 1..n |-> NewChannel(i)]
           /\ producers' = producers \o [i \in 1..n |-> base + i]
    /\ starts' = starts + 1
    /\ UNCHANGED <<now, saturating, clockVars, encVars, tlVars, backends, jobs, pc, calls,
                   delivered, failed, device>>

\* The delay with the operands of the subtraction exchanged.
delay_reversed(at, t) == InstantSub(t, at)

\* let delay = at - Instant::now(), the clock read at instant t.
delay_of(at, t) == InstantSub(at, t)

\* A call of schedule_at: the loop runs over producers, which no one changes
\* while it runs; with no producer the call returns at once.  stale records
\* that at was already past on entry, starts how many start_backends()
\* calls came before.
NewCall(at, e) ==
    [at |-> at, evt |-> e, stale |-> at < now, idx |-> 1, starts |-> starts,
     status |-> IF Len(producers) = 0 THEN "returned" ELSE "running"]

\* Scheduler::schedule_at(at, event) is entered.
ScheduleAt(at, e) ==
    /\ pc = "idle"
    /\ Len(calls) < MaxCalls
    /\ calls' = Append(calls, NewCall(at, e))
    /\ pc' = IF Len(producers) = 0 THEN "idle" ELSE "loop"
    /\ UNCHANGED <<now, saturating, clockVars, encVars, tlVars, backends, producers, chans,
                   jobs, starts, delivered, failed, device>>

\* The job one iteration hands to thread_pool.execute_after(delay, ..): the
\* closure owns a clone of the sender (chan) and of the event; the pool runs
\* it once delay has passed since the submission.  call, pos and readAt
\* record where the job comes from.
NewJob(c, call, t) ==
    [call |-> call, pos |-> c.idx, chan |-> producers[c.idx], evt |-> clone(c.evt),
     due |-> t + delay_of(c.at, t), readAt |-> t]

\* One iteration of the loop of schedule_at, for producer idx.  The
\* subtraction at - Instant::now() panics in a build where it does not
\* saturate: the call, and the thread, end there.
ScheduleIter ==
    /\ pc = "loop"
    /\ LET call == Len(calls)
           c    == calls[call]
       IN  IF InstantSubPanics(c.at, now)
           THEN /\ calls' = [calls EXCEPT ![call].status = "panicked"]
                /\ pc' = "panicked"
                /\ jobs' = jobs
           ELSE /\ jobs' = jobs \cup {NewJob(c, call, now)}
                /\ calls' = [calls EXCEPT ![call].idx = c.idx + 1,
                                          ![call].status =
                                              IF c.idx = Len(producers) THEN "returned" ELSE "running"]
                /\ pc' = IF c.idx = Len(producers) THEN "idle" ELSE "loop"
    /\ UNCHANGED <<now, saturating, clockVars, encVars, tlVars, backends, producers, chans,
                   starts, delivered, failed, device>>

\* What is recorded of a job whose send has run.
Sent(j) == [call |-> j.call, pos |-> j.pos, chan |-> j.chan, evt |-> j.evt]

\* The send of a bounded channel of capacity one: the job waits while the
\* channel holds an event its consumer has not taken.
JobRun_bounded(j) ==
    /\ j \in jobs
    /\ j.due <= now
    /\ chans[j.chan].queue = <<>>
    /\ jobs' = jobs \ {j}
    /\ IF chans[j.chan].rx = "open"
       THEN /\ chans' = [chans EXCEPT ![j.chan].queue = Append(@, j.evt)]
            /\ delivered' = delivered \cup {Sent(j)}
            /\ failed' = failed
       ELSE /\ failed' = failed \cup {Sent(j)}
            /\ UNCHANGED <<chans, delivered>>
    /\ UNCHANGED <<now, saturating, clockVars, encVars, tlVars, backends, producers, pc, calls,
                   starts, device>>

\* A worker of the pool runs a job that is due: sender.send(evt).unwrap().
\* The send puts the event at the end of the channel, or fails, and the
\* unwrap panics in the worker, when the receiver has been dropped.
JobRun(j) ==
    /\ j \in jobs
    /\ j.due <= now
    /\ jobs' = jobs \ {j}
    /\ IF chans[j.chan].rx = "open"
       THEN /\ chans' = [chans EXCEPT ![j.chan].queue = Append(@, j.evt)]
            /\ delivered' = delivered \cup {Sent(j)}
            /\ failed' = failed
       ELSE /\ failed' = failed \cup {Sent(j)}
            /\ UNCHANGED <<chans, delivered>>
    /\ UNCHANGED <<now, saturating, clockVars, encVars, tlVars, backends, producers, pc, calls,
                   starts, device>>

\* DummyBackend's thread: receiver.recv() returns Ok(event), which it prints.
DummyRecv(k) ==
    /\ chans[k].kind = "dummy"
    /\ chans[k].rx = "open"
    /\ chans[k].queue # <<>>
    /\ chans' = [chans EXCEPT ![k].queue = Tail(@)]
    /\ UNCHANGED <<now, saturating, clockVars, encVars, tlVars, backends, producers, jobs, pc,
                   calls, starts, delivered, failed, device>>

\* MidiBackend's thread: receiver.recv() returns Ok(event); to_midi encodes it
\* and out.send writes it, or to_midi panics: the thread ends and drops the
\* receiver with what the channel still holds.
MidiRecv(k) ==
    /\ chans[k].kind = "midi"
    /\ chans[k].rx = "open"
    /\ chans[k].queue # <<>>
    /\ LET arm == MidiArm(Head(chans[k].queue))
       IN  IF arm.panic
           THEN /\ chans' = [chans EXCEPT ![k].queue = <<>>, ![k].rx = "dropped"]
                /\ device' = device
           ELSE /\ chans' = [chans EXCEPT ![k].queue = Tail(@)]
                /\ device' = device \o [i \in 1..Len(arm.wrote) |->
                                           [chan |-> k, bytes |-> arm.wrote[i]]]
    /\ UNCHANGED <<now, saturating, clockVars, encVars, tlVars, backends, producers, jobs, pc,
                   calls, starts, delivered, failed>>

\* The Scheduler is dropped: its Vec of senders goes with it.  The pool's
\* jobs, each with its own clone of a sender, still run when they are due.
DropScheduler ==
    /\ pc = "idle"
    /\ pc' = "dropped"
    /\ producers' = <<>>
    /\ UNCHANGED <<now, saturating, clockVars, encVars, tlVars, backends, chans, jobs, calls,
                   starts, delivered, failed, device>>

\* The channel is closed: no sender of it is left, in producers or in a job.
Closed(k) ==
    /\ \A i \in DOMAIN producers : producers[i] # k
    /\ \A j \in jobs : j.chan # k

\* receiver.recv() on a closed and empty channel returns Err(RecvError); the
\* arm Err(_) => {} does nothing and the loop goes back to recv().
RecvErr(k) == [chans EXCEPT ![k].sawErr = TRUE]

\* DummyBackend's thread takes the Err arm.
DummyRecvErr(k) ==
    /\ chans[k].kind = "dummy"
    /\ chans[k].rx = "open"
    /\ chans[k].queue = <<>>
    /\ Closed(k)
    /\ chans' = RecvErr(k)
    /\ UNCHANGED <<now, saturating, clockVars, encVars, tlVars, backends, producers, jobs, pc,
                   calls, starts, delivered, failed, device>>

\* MidiBackend's thread takes the Err arm.
MidiRecvErr(k) ==
    /\ chans[k].kind = "midi"
    /\ chans[k].rx = "open"
    /\ chans[k].queue = <<>>
    /\ Closed(k)
    /\ chans' = RecvErr(k)
    /\ UNCHANGED <<now, saturating, clockVars, encVars, tlVars, backends, producers, jobs, pc,
                   calls, starts, delivered, failed, device>>

\* The time source moves on.
PassTime ==
    /\ now < MaxNow
    /\ now' = now + 1
    /\ UNCHANGED <<saturating, clockVars, schedVars, encVars, tlVars>>

(***************************************************************************)
(* main.rs: Event, Timeline.                                               *)
(*                                                                         *)
(* In a Timeline run the Instants and Durations count tick durations, the  *)
(* Duration that Timeline::new computes from bpm and tpb, and the time     *)
(* source is read at whole ticks after Timeline::new.                      *)
(***************************************************************************)

\* Event::new(map! {"note" => n, "duration" => d})
NoteEvt(n, d) == [note |-> n, duration |-> d]

\* str::trim: the white space at both ends goes.
RECURSIVE trim(_)
trim(s) ==
    IF s = <<>> THEN s
    ELSE IF Head(s) = " " THEN trim(Tail(s))
    ELSE IF s[Len(s)] = " " THEN trim(SubSeq(s, 1, Len(s) - 1))
    ELSE s

RECURSIVE FromDigits(_)
FromDigits(s) ==
    IF s = <<>> THEN 0
    ELSE 10 * FromDigits(SubSeq(s, 1, Len(s) - 1)) + DigitVal[s[Len(s)]]

\* parse::<u64>(): as ParseU8, with no overflow on the short strings of the
\* model.
ParseU64(s) ==
    IF s = <<>> THEN ParseErr
    ELSE IF Head(s) \in {"+", "-"} /\ Tail(s) = <<>> THEN ParseErr
    ELSE LET d == IF Head(s) = "+" THEN Tail(s) ELSE s
         IN  IF \A i \in DOMAIN d : d[i] \in DOMAIN DigitVal
             THEN [ok |-> TRUE, val |-> FromDigits(d)]
             ELSE ParseErr

\* Event::get_note, Event::get_duration: the results of the parse, which the
\* code unwraps.
get_note(e) == ParseU8(trim(e.note))

get_duration(e) == ParseU64(trim(e.duration))

GetNotesPanics(e) == ~get_note(e).ok \/ ~get_duration(e).ok

\* NoteEventsProducer::get_notes for Event
get_notes(e) ==
    << <<"NoteOn", get_note(e).val, VELOCITY>>,
       <<"Sustain", get_duration(e).val>>,
       <<"NoteOff", get_note(e).val>> >>

TimelineEvent(e, at, r, q) ==
    [event |-> e, scheduled_at |-> at, reschedule |-> r, quantize |-> q]

\* Timeline::new(bpm, tpb, sender) at instant t.
Timeline_new(tpb, t) ==
    [current_time |-> t, tick_duration |-> 1, ticks_per_beat |-> tpb,
     ticks_per_bar |-> tpb * BPB, current_tick |-> 0, current_beat |-> 0,
     current_bar |-> 0, events |-> <<>>]

\* tick_to_beat with the remainder taken where the quotient should be.
tick_to_beat_rem(n) == (n % TPB) % BPB

tick_to_beat(n) == (n \div TPB) % BPB

tick_to_bar(n) == (n \div TPB) \div BPB

next_beat_at(tl) ==
    LET ticks_to_next_beat == tl.current_tick % tl.ticks_per_beat
    IN  tl.current_time + tl.tick_duration * ticks_to_next_beat

next_bar_at(tl) ==
    LET ticks_to_next_bar == tl.ticks_per_bar - (tl.current_tick % tl.ticks_per_bar)
    IN  tl.current_time + tl.tick_duration * ticks_to_next_bar

\* Timeline::update_time with Instant::now() = t.
update_time(tl, t) == [tl EXCEPT !.current_time = t]

\* self.events.push_back(Box::new(te))
push_back(tl, te) == [tl EXCEPT !.events = Append(@, te)]

\* Timeline::schedule
schedule(tl, t, e, r) ==
    LET u == update_time(tl, t)
    IN  push_back(u, TimelineEvent(e, u.current_time, r, "Tick"))

\* Timeline::schedule_at
Timeline_schedule_at(tl, t, e, at, r, q) ==
    push_back(update_time(tl, t), TimelineEvent(e, at, r, q))

\* Timeline::schedule_at_next_beat
schedule_at_next_beat(tl, t, e, r) ==
    LET u == update_time(tl, t)
    IN  push_back(u, TimelineEvent(e, next_beat_at(u), r, "Beat"))

\* Timeline::schedule_at_next_bar
schedule_at_next_bar(tl, t, e, r) ==
    LET u == update_time(tl, t)
    IN  push_back(u, TimelineEvent(e, next_bar_at(u), r, "Bar"))

\* What a call leaves: the Timeline, the notes it sent, whether it panicked.
Done(tl, sent, panic) == [tl |-> tl, sent |-> sent, panic |-> panic]

\* process() that puts a head that is not due back at the front.
process_front(tl, t) ==
    IF tl.events = <<>> THEN Done(tl, <<>>, FALSE)
    ELSE
        LET te     == Head(tl.events)
            popped == [tl EXCEPT !.events = Tail(@)]
            e      == te.event
        IN  IF te.scheduled_at <= tl.current_time
            THEN IF GetNotesPanics(e) THEN Done(popped, <<>>, TRUE)
                 ELSE IF te.reschedule
                 THEN Done(CASE te.quantize = "Bar" -> schedule_at_next_bar(popped, t, e, TRUE)
                             [] te.quantize = "Beat" -> schedule_at_next_beat(popped, t, e, TRUE)
                             [] OTHER -> Timeline_schedule_at(popped, t, e, te.scheduled_at,
                                                              TRUE, te.quantize),
                           get_notes(e), FALSE)
                 ELSE Done(popped, get_notes(e), FALSE)
            ELSE Done(update_time(tl, t), <<>>, FALSE)

\* Timeline::process with Instant::now() = t.  get_notes panics on a note or
\* a duration that does not parse, after the head has been popped.
process(tl, t) ==
    IF tl.events = <<>> THEN Done(tl, <<>>, FALSE)
    ELSE
        LET te     == Head(tl.events)
            popped == [tl EXCEPT !.events = Tail(@)]
            e      == te.event
        IN  IF te.scheduled_at <= tl.current_time
            THEN IF GetNotesPanics(e) THEN Done(popped, <<>>, TRUE)
                 ELSE IF te.reschedule
                 THEN Done(CASE te.quantize = "Bar" -> schedule_at_next_bar(popped, t, e, TRUE)
                             [] te.quantize = "Beat" -> schedule_at_next_beat(popped, t, e, TRUE)
                             [] OTHER -> Timeline_schedule_at(popped, t, e, te.scheduled_at,
                                                              TRUE, te.quantize),
                           get_notes(e), FALSE)
                 ELSE Done(popped, get_notes(e), FALSE)
            ELSE Done(Timeline_schedule_at(popped, t, e, te.scheduled_at, te.reschedule,
                                           te.quantize),
                      <<>>, FALSE)

\* Timeline::tick with Instant::now() = t: what it leaves, whether it called
\* process() (through beat()), and the Timeline process() was entered with.
\* current_tick is a u32: the runs of the model end long before 2^32 ticks.
Timeline_tick(tl, t) ==
    LET a        == [tl EXCEPT !.current_time = @ + tl.tick_duration,
                               !.current_tick = @ + 1]
        new_bar  == tick_to_bar(a.current_tick)
        b        == IF a.current_bar # new_bar THEN [a EXCEPT !.current_bar = new_bar] ELSE a
        new_beat == tick_to_beat(b.current_tick)
        c        == [b EXCEPT !.current_beat = new_beat]
    IN  IF b.current_beat # new_beat
        THEN [out |-> process(c, t), processed |-> TRUE, entered |-> c]
        ELSE [out |-> Done(b, <<>>, FALSE), processed |-> FALSE, entered |-> tl]

\* The record of a Timeline operation.
TimelineOp(op, pre, out, processed) ==
    [op |-> op, pre |-> pre, sent |-> out.sent, processed |-> processed,
     result |-> IF out.panic THEN "panic" ELSE "ok",
     procs |-> tlog.procs + (IF processed THEN 1 ELSE 0),
     scheds |-> tlog.scheds + (IF op \in {"tick", "new"} THEN 0 ELSE 1)]

\* A panic unwinds the thread that owns the Timeline.
TimelineAlive == tlog.result = "ok"

\* The notes and durations of the events scheduled in a Timeline run.
TlEvents == {NoteEvt(<<" ", "7", "6">>, <<"5", "0">>),
             NoteEvt(<<"a">>, <<"1", "0", "0">>)}

\* Clock::run calls tick() once for each tick duration that has passed.
Tick(bound) ==
    /\ TimelineAlive
    /\ timeline.current_tick < bound
    /\ timeline.current_tick < now
    /\ LET r == Timeline_tick(timeline, now)
       IN  /\ timeline' = r.out.tl
           /\ tlog' = TimelineOp("tick", r.entered, r.out, r.processed)
    /\ UNCHANGED <<now, saturating, clockVars, schedVars, encVars>>

\* The time source moves on by a tick duration.
TickPasses(bound) ==
    /\ now < bound
    /\ now - timeline.current_tick < MaxLag
    /\ now' = now + 1
    /\ UNCHANGED <<saturating, clockVars, schedVars, encVars, tlVars>>

\* The owner may schedule: a bounded number of calls, early in the run.
MaySchedule ==
    /\ TimelineAlive
    /\ tlog.scheds < MaxSched
    /\ timeline.current_tick <= MaxSchedTick

Schedule(e, r) ==
    /\ MaySchedule
    /\ timeline' = schedule(timeline, now, e, r)
    /\ tlog' = TimelineOp("schedule", timeline, Done(timeline', <<>>, FALSE), FALSE)
    /\ UNCHANGED <<now, saturating, clockVars, schedVars, encVars>>

ScheduleAtNextBeat(e, r) ==
    /\ MaySchedule
    /\ timeline' = schedule_at_next_beat(timeline, now, e, r)
    /\ tlog' = TimelineOp("schedule_at_next_beat", timeline, Done(timeline', <<>>, FALSE), FALSE)
    /\ UNCHANGED <<now, saturating, clockVars, schedVars, encVars>>

ScheduleAtNextBar(e, r) ==
    /\ MaySchedule
    /\ timeline' = schedule_at_next_bar(timeline, now, e, r)
    /\ tlog' = TimelineOp("schedule_at_next_bar", timeline, Done(timeline', <<>>, FALSE), FALSE)
    /\ UNCHANGED <<now, saturating, clockVars, schedVars, encVars>>

\* The Timeline as main constructs it, at instant 0.
NewTimeline ==
    /\ timeline = Timeline_new(TPB, 0)
    /\ tlog = [op |-> "new", pre |-> Timeline_new(TPB, 0), sent |-> <<>>,
               processed |-> FALSE, result |-> "ok", procs |-> 0, scheds |-> 0]

(***************************************************************************)
(* The specifications.                                                     *)
(***************************************************************************)
\* Scheduler::new(backends): no producer yet.
Init ==
    /\ now = 0
    /\ saturating \in BOOLEAN
    /\ clock = NewClock(120, 0)
    /\ last = ClockOp("new", 120, NewClock(120, 0), "ok", 0)
    /\ backends \in ListsUpTo(Kinds, MaxBackends)
    /\ producers = <<>>
    /\ chans = <<>>
    /\ jobs = {}
    /\ pc = "idle"
    /\ calls = <<>>
    /\ starts = 0
    /\ delivered = {}
    /\ failed = {}
    /\ device = <<>>
    /\ midiIn = <<>>
    /\ midiOut = "none"
    /\ NewTimeline

Next ==
    \/ StartBackends
    \/ \E at \in 0..MaxNow, e \in Events : ScheduleAt(at, e)
    \/ ScheduleIter
    \/ \E j \in jobs : JobRun(j)
    \/ \E k \in DOMAIN chans : DummyRecv(k)
    \/ \E k \in DOMAIN chans : MidiRecv(k)
    \/ PassTime

Spec == Init /\ [][Next]_vars

(***************************************************************************)
(* A Scheduler run that may end with the Scheduler dropped, which closes   *)
(* each channel once the jobs holding a sender of it have run.             *)
(***************************************************************************)
CloseNext ==
    \/ Next
    \/ DropScheduler
    \/ \E k \in DOMAIN chans : DummyRecvErr(k)
    \/ \E k \in DOMAIN chans : MidiRecvErr(k)

CloseSpec == Init /\ [][CloseNext]_vars


(***************************************************************************)
(* A Clock run: Clock::new(bpm) at instant 0, then retunes as time passes. *)
(* ClockSpec gives positive arguments only; ClockZeroSpec also gives 0.    *)
(***************************************************************************)
NoScheduler ==
    /\ backends = <<>>
    /\ producers = <<>>
    /\ chans = <<>>
    /\ jobs = {}
    /\ pc = "idle"
    /\ calls = <<>>
    /\ starts = 0
    /\ delivered = {}
    /\ failed = {}
    /\ device = <<>>
    /\ midiIn = <<>>
    /\ midiOut = "none"

ClockInitWith(bpms) ==
    /\ now = 0
    /\ saturating \in BOOLEAN
    /\ \E bpm \in bpms :
          /\ clock = NewClock(bpm, 0)
          /\ last = ClockOp("new", bpm, NewClock(bpm, 0), "ok", 0)
    /\ NoScheduler
    /\ NewTimeline

ClockInit == ClockInitWith(BpmArgs)

ClockNext ==
    \/ Advance
    \/ \E new_bpm \in BpmArgs : SetBpm(new_bpm)
    \/ \E new_bpb \in BpbArgs : SetBpb(new_bpb)

ClockSpec == ClockInit /\ [][ClockNext]_vars

ClockZeroInit == ClockInitWith(BpmArgs \cup {0})

ClockZeroNext ==
    \/ Advance
    \/ \E new_bpm \in BpmArgs \cup {0} : SetBpm(new_bpm)
    \/ \E new_bpb \in BpbArgs \cup {0} : SetBpb(new_bpb)

ClockZeroSpec == ClockZeroInit /\ [][ClockZeroNext]_vars

(***************************************************************************)
(* An encoding run: the MIDI consumer is handed one event, of any value of *)
(* up to MaxLen characters, and runs the Ok(event) arm of its loop on it.  *)
(***************************************************************************)
Chars == {"0", "1", "2", "5", "6", "7", "8", "9", "a", "+", "-", " "}

EncInit ==
    /\ now = 0
    /\ saturating \in BOOLEAN
    /\ clock = NewClock(120, 0)
    /\ last = ClockOp("new", 120, NewClock(120, 0), "ok", 0)
    /\ backends = <<"midi">>
    /\ producers = <<>>
    /\ chans = <<>>
    /\ jobs = {}
    /\ pc = "idle"
    /\ calls = <<>>
    /\ starts = 0
    /\ delivered = {}
    /\ failed = {}
    /\ device = <<>>
    /\ midiIn \in ListsUpTo(Chars, MaxLen)
    /\ midiOut = "none"
    /\ NewTimeline

\* The consumer's arm on Event(midiIn, 1): midiOut is "panic", or "wrote" with
\* the message appended to device.
Encode ==
    /\ midiOut = "none"
    /\ LET arm == MidiArm(Event(midiIn, 1))
       IN  /\ midiOut' = IF arm.panic THEN "panic" ELSE "wrote"
           /\ device' = device \o [i \in 1..Len(arm.wrote) |->
                                      [chan |-> 1, bytes |-> arm.wrote[i]]]
    /\ UNCHANGED <<now, saturating, clockVars, tlVars, midiIn, backends, producers, chans,
                   jobs, pc, calls, starts, delivered, failed>>

EncNext == Encode

EncSpec == EncInit /\ [][EncNext]_vars

(***************************************************************************)
(* A Timeline run: Timeline::new at instant 0, schedule calls of its owner *)
(* and the ticks of Clock::run.  TickSpec is the run with no event, which  *)
(* goes on past the first bar.  No Instant is subtracted in these runs.    *)
(***************************************************************************)
TimelineInit ==
    /\ now = 0
    /\ saturating = TRUE
    /\ clock = NewClock(120, 0)
    /\ last = ClockOp("new", 120, NewClock(120, 0), "ok", 0)
    /\ NoScheduler
    /\ NewTimeline

TimelineNext ==
    \/ Tick(MaxTicks)
    \/ TickPasses(MaxTicks)
    \/ \E e \in TlEvents, r \in BOOLEAN : Schedule(e, r)
    \/ \E e \in TlEvents, r \in BOOLEAN : ScheduleAtNextBeat(e, r)
    \/ \E e \in TlEvents, r \in BOOLEAN : ScheduleAtNextBar(e, r)

TimelineSpec == TimelineInit /\ [][TimelineNext]_vars

TickNext ==
    \/ Tick(MaxBarTicks)
    \/ TickPasses(MaxBarTicks)

TickSpec == TimelineInit /\ [][TickNext]_vars


(***************************************************************************)
(* The claims.                                                             *)
(***************************************************************************)
CallIds == DOMAIN calls

BackendIds == DOMAIN backends

\* The call has ended and the pool holds none of its jobs.
Settled(c) == calls[c].status # "running" /\ ~\E j \in jobs : j.call = c

\* The sends of call c that put an event into a channel of backend i.
CopiesTo(c, i) == {d \in delivered : d.call = c /\ chans[d.chan].backend = i}

\* C1: after one start_backends(), every schedule_at(at, e) puts exactly one
\* value-equal copy of e into the channel of each registered backend: never
\* two copies of one call in a backend's channel, and once the call has ended
\* and the pool has run its jobs, one copy in each.
C1_FanOutExactlyOnce ==
    \A c \in CallIds : calls[c].starts = 1 =>
        \A i \in BackendIds :
            /\ Cardinality(CopiesTo(c, i)) <= 1
            /\ \A d \in CopiesTo(c, i) : d.evt = calls[c].evt
            /\ Settled(c) => Cardinality(CopiesTo(c, i)) = 1

\* C2: beat() read at the instant of a set_bpm call with a positive argument
\* is the same just before the call and just after it.
C2_BeatKeptAcrossSetBpm ==
    (last.op = "set_bpm" /\ last.result = "ok" /\ ~BeatPanics(clock, last.at))
        => beat(clock, last.at) = beat(last.pre, last.at)

\* C3: bar() read at the instant of a set_bpb or set_bpm call with a positive
\* argument is the same just before the call and just after it.
C3_BarKeptAcrossRetune ==
    (last.op \in {"set_bpb", "set_bpm"} /\ last.result = "ok"
        /\ ~BarPanics(clock, last.at))
        => bar(clock, last.at) = bar(last.pre, last.at)

C5_NotStartedIsReported ==
    \A c \in CallIds : calls[c].starts = 0 => calls[c].status = "NotStarted"

\* C6: schedule_at with at already past does not fail: the delay is zero and
\* the event is delivered once to every registered backend.
C6_StaleCallDelivers ==
    \A c \in CallIds : (calls[c].stale /\ calls[c].starts = 1) =>
        /\ calls[c].status # "panicked"
        /\ \A j \in jobs : j.call = c => j.due = j.readAt
        /\ Settled(c) => \A i \in BackendIds : Cardinality(CopiesTo(c, i)) = 1

\* C7: Clock::new, set_bpm and set_bpb with a zero argument fail and leave
\* the Clock unchanged; no Clock has bpm = 0 or bpb = 0.
C7_ZeroTempoRejected ==
    /\ clock.bpm # 0
    /\ clock.bpb # 0
    /\ last.arg = 0 => (last.result # "ok" /\ clock = last.pre)

\* C8: after start_backends(), called once or more, the Scheduler holds one
\* send half per backend, the i-th connected to the channel of the i-th
\* backend, and every backend has one channel and one consumer.
C8_OneChannelPerBackend ==
    starts >= 1 =>
        /\ Len(producers) = Len(backends)
        /\ \A i \in DOMAIN producers : chans[producers[i]].backend = i
        /\ \A i \in BackendIds :
              Cardinality({k \in DOMAIN chans : chans[k].backend = i}) = 1

\* C9: an event the MIDI backend cannot decode is dropped alone: the consumer
\* keeps running, and no later send to it finds the receiver gone.
C9_MidiConsumerSurvives ==
    /\ \A k \in DOMAIN chans : chans[k].kind = "midi" => chans[k].rx = "open"
    /\ \A f \in failed : chans[f.chan].kind # "midi"

\* What a numeric value denotes: decimal digits, after an optional "+".
Unsigned(s) == IF s # <<>> /\ Head(s) = "+" THEN Tail(s) ELSE s

IsNumber(s) == Unsigned(s) # <<>> /\ \A i \in DOMAIN Unsigned(s) : Unsigned(s)[i] \in DOMAIN DigitVal

RECURSIVE DecimalValue(_)
DecimalValue(s) ==
    IF s = <<>> THEN 0
    ELSE 10 * DecimalValue(SubSeq(s, 1, Len(s) - 1)) + DigitVal[s[Len(s)]]

Denoted(s) == DecimalValue(Unsigned(s))

\* C10: a value that denotes n in 0..127 is written as [0x90, n, 0x64]; any
\* other value (not a number, or a number past 127) produces no write.
C10_EncodingRange ==
    midiOut # "none" =>
        IF IsNumber(midiIn) /\ Denoted(midiIn) <= 127
        THEN midiOut = "wrote"
             /\ device = <<[chan |-> 1, bytes |-> <<144, Denoted(midiIn), 100>>]>>
        ELSE device = <<>>

\* C11: a consumer thread whose recv() has reported the channel closed leaves
\* its receive loop and terminates: it is never back in the loop after that.
C11_ClosedConsumerExits ==
    \A k \in DOMAIN chans : chans[k].sawErr => chans[k].rx # "open"

\* C12: a job that is due and whose own consumer is running can always run
\* its send, whatever the queues and the consumers of the other backends are
\* doing and however long its own queue is: the send does not block, it puts
\* the copy at the end of its own channel and leaves every other channel as
\* it is.
C12_SendNeverWaits ==
    \A j \in jobs : (j.due <= now /\ chans[j.chan].rx = "open") =>
        ENABLED (/\ JobRun(j)
                 /\ chans' = [chans EXCEPT ![j.chan].queue = Append(@, j.evt)])

\* C12, the case: the consumer of the first backend has taken nothing, its
\* queue holds the copies of two calls, and the second backend's channel has
\* been given its copy of the second call.
C12_Witness ==
    /\ \E ka \in DOMAIN chans :
          chans[ka].backend = 1 /\ chans[ka].rx = "open" /\ Len(chans[ka].queue) = 2
    /\ \E d \in delivered : d.call = 2 /\ chans[d.chan].backend = 2

\* The instants a Clock run reads the time source at.
ClockInstants == {k * ClockStep : k \in 0..MaxClockSteps}

\* The indices given to beat_at and bar_at: below 2^32 and from 2^32 on.
Indices == {U64(h, l) : h \in 0..1, l \in 0..MaxIndex}

\* C13: set_bpb with a positive argument leaves start and bpm as they were:
\* beat() read at any instant and beat_at(b) for every b are the same before
\* and after the call.
C13_SetBpbKeepsBeats ==
    last.op = "set_bpb" =>
        /\ clock.start = last.pre.start
        /\ clock.bpm = last.pre.bpm
        /\ \A b \in Indices : beat_at(clock, b) = beat_at(last.pre, b)
        /\ \A t \in ClockInstants :
              /\ BeatPanics(clock, t) = BeatPanics(last.pre, t)
              /\ ~BeatPanics(clock, t) => beat(clock, t) = beat(last.pre, t)

\* C13, the case: a set_bpb call made after the construction instant has
\* returned, and has moved bar_start and changed bpb.
C13_Witness ==
    /\ last.op = "set_bpb"
    /\ last.result = "ok"
    /\ last.at > 0
    /\ clock.bar_start # last.pre.bar_start
    /\ clock.bpb # last.pre.bpb

\* b times the Duration d for a u64 b, as a u64 of milliseconds: the low
\* words of the model are small enough for lo * d to stay below 2^32.
Times(b, d) == U64(b.hi * d, b.lo * d)

\* C14: for every bpm > 0, bpb > 0 and every u64 index, beat_at(b) - start is
\* b * tick and bar_at(n) - bar_start is n * bpb * tick, with tick the whole
\* milliseconds of 60000 / bpm; beat_at(1) - beat_at(0) is that tick.
C14_AnchorPlusIndexTimesTick ==
    LET t == 60000 \div clock.bpm
    IN  /\ tick(clock) = t
        /\ beat_at(clock, Small(1)) - beat_at(clock, Small(0)) = t
        /\ \A b \in Indices :
              /\ Small(beat_at(clock, b) - clock.start) = Times(b, t)
              /\ Small(bar_at(clock, b) - clock.bar_start) = Times(b, clock.bpb * t)

\* C15: wherever the Clock is read, beat_phase() and bar_phase() are in [0,1)
\* and are what is left of the elapsed time after the whole beats and bars
\* that beat() and bar() report: (now - start) / tick = (beat() - 1) +
\* beat_phase() and (now - bar_start) / tock = (bar() - 1) + bar_phase(),
\* each multiplied through by the tick and the tock below.
C15_PhaseInsideReportedUnit ==
    (~PhasePanics(clock, now) /\ ~BeatPanics(clock, now) /\ ~BarPanics(clock, now)) =>
        LET bp == beat_phase(clock, now)
            rp == bar_phase(clock, now)
        IN  /\ bp.den = tick(clock) /\ 0 <= bp.num /\ bp.num < bp.den
            /\ rp.den = tock(clock) /\ 0 <= rp.num /\ rp.num < rp.den
            /\ InstantSub(now, clock.start)
                  = (beat(clock, now) - 1) * tick(clock) + bp.num
            /\ InstantSub(now, clock.bar_start)
                  = (bar(clock, now) - 1) * tock(clock) + rp.num

\* C16: with no retune in between, beat() read at the instant beat_at(b) is
\* b + 1 for every index b, and bar() read at bar_at(n) is n + 1.
C16_BeatAtBeginsNextBeat ==
    \A b \in Indices :
        /\ ~BeatPanics(clock, beat_at(clock, b))
              => Small(beat(clock, beat_at(clock, b))) = U64(b.hi, b.lo + 1)
        /\ ~BarPanics(clock, bar_at(clock, b))
              => Small(bar(clock, bar_at(clock, b))) = U64(b.hi, b.lo + 1)

\* The event a schedule call has just put at the end of the queue.
Stamped == timeline.events[Len(timeline.events)]

\* The instant at is current_time + k tick durations with k >= 0 and
\* current_tick + k a multiple of per.
IsBoundary(at, per) ==
    LET k == at - timeline.current_time
    IN  k >= 0 /\ (timeline.current_tick + k) % per = 0

\* C17: at every current_tick, next_beat_at() and next_bar_at() return an
\* instant k tick durations after current_time, with k >= 0 and
\* current_tick + k a multiple of ticks_per_beat (of ticks_per_bar), and
\* schedule_at_next_beat and schedule_at_next_bar stamp their event with it.
C17_NextBoundaryInstants ==
    /\ IsBoundary(next_beat_at(timeline), timeline.ticks_per_beat)
    /\ IsBoundary(next_bar_at(timeline), timeline.ticks_per_bar)
    /\ tlog.op = "schedule_at_next_beat"
          => IsBoundary(Stamped.scheduled_at, timeline.ticks_per_beat)
    /\ tlog.op = "schedule_at_next_bar"
          => IsBoundary(Stamped.scheduled_at, timeline.ticks_per_bar)

C19_TickCountsBeatsAndBars ==
    /\ timeline.current_bar = timeline.current_tick \div (480 * 16)
    /\ timeline.current_beat = (timeline.current_tick \div 480) % 16
    /\ tlog.procs = timeline.current_tick \div 480
    /\ tlog.op = "tick" => (tlog.processed <=> timeline.current_tick % 480 = 0)

\* C19, the case: the tick that begins the second bar has just run: it has
\* invoked process(), for the sixteenth time.
C19_Witness ==
    /\ tlog.op = "tick"
    /\ tlog.processed
    /\ timeline.current_bar = 1
    /\ timeline.current_beat = 0
    /\ tlog.procs = 16

=============================================================================
